---- MODULE Spec2Model ----
(***************************************************************************)
(* A model of the crawler in src/main.py: the crawl() command (the         *)
(* frontier loop over a FIFO queue and a visited set) and the helpers it   *)
(* calls: is_valid, should_download, save_resource.                        *)
(*                                                                         *)
(* A URL is kept in the parsed form urlparse gives it: a record of scheme, *)
(* netloc, path, query and fragment.  A path, and every file-system path,  *)
(* is a sequence of tokens; the token "/" is the separator and every other *)
(* token stands for a run of characters holding no "/".                    *)
(***************************************************************************)
EXTENDS Integers, Sequences, FiniteSets, TLC

(***************************************************************************)
(* Bounds of the model.                                                    *)
(***************************************************************************)
MaxLinks == 2
MaxPathLen == 4
MaxDepthArg == 1

(***************************************************************************)
(* URLs.                                                                   *)
(***************************************************************************)
Url(s, n, p, q, f) == [scheme |-> s, netloc |-> n, path |-> p, query |-> q, fragment |-> f]

SITE_HOST == "example.com"
OTHER_HOST == "other.com"

P_root == <<"/">>
P_a == <<"/", "a">>
P_ab == <<"/", "a", "/", "b">>
P_b == <<"/", "b">>

U_root == Url("https", SITE_HOST, P_root, "", "")
U_a == Url("https", SITE_HOST, P_a, "", "")
U_ab == Url("http", SITE_HOST, P_ab, "", "")
U_a_qf == Url("https", SITE_HOST, P_a, "q=1", "top")
U_ftp == Url("ftp", SITE_HOST, P_a, "", "")
U_other == Url("https", OTHER_HOST, P_root, "", "")
U_b == Url("https", SITE_HOST, P_b, "", "")

\* The absolute URLs the link extractors can hand back (after urljoin).
LinkPool == {U_a_qf, U_ab, U_ftp, U_other}

\* The links of a site whose saved paths do not collide (/, /a and /b).
FlatLinkPool == {U_a_qf, U_b, U_other}

\* The URLs the user can start the crawl from.
StartURLs == {U_root, U_a_qf}

\* The values of --max-depth: {} is an omitted flag, {n} the integer n.
DepthArgs == {{}} \cup {{d} : d \in -1..MaxDepthArg}

RECURSIVE SeqsUpTo(_, _)
SeqsUpTo(S, n) ==
    IF n = 0 THEN {<<>>}
    ELSE LET shorter == SeqsUpTo(S, n - 1)
         IN shorter \cup {Append(s, x) : s \in {t \in shorter : Len(t) = n - 1}, x \in S}

LinkLists == SeqsUpTo(LinkPool, MaxLinks)

(***************************************************************************)
(* is_valid and should_download                                            *)
(***************************************************************************)
is_valid(url) == url.scheme \in {"http", "https"}

\* should_download with the comparison lost: every host is in scope.
should_download_any(url, domain) == TRUE

should_download(url, domain) == url.netloc = domain

(***************************************************************************)
(* save_resource: the save path of a URL                                   *)
(***************************************************************************)
endswith_slash(path) == Len(path) > 0 /\ path[Len(path)] = "/"

RECURSIVE lstrip_slash(_)
lstrip_slash(path) ==
    IF Len(path) > 0 /\ Head(path) = "/" THEN lstrip_slash(Tail(path)) ELSE path

RECURSIVE rstrip_slash(_)
rstrip_slash(path) ==
    IF endswith_slash(path) THEN rstrip_slash(SubSeq(path, 1, Len(path) - 1)) ELSE path

\* str.strip("/")
strip_slash(path) == rstrip_slash(lstrip_slash(path))

\* str.split("/"): the list of the (possibly empty) runs between separators;
\* never an empty list.
RECURSIVE split_slash(_)
split_slash(path) ==
    IF path = <<>> THEN << <<>> >>
    ELSE LET rest == split_slash(Tail(path))
         IN IF Head(path) = "/" THEN << <<>> >> \o rest
            ELSE << <<Head(path)>> \o Head(rest) >> \o Tail(rest)

\* os.path.join(a, *parts) on POSIX, for parts that hold no "/".
RECURSIVE os_path_join(_, _)
os_path_join(a, parts) ==
    IF parts = <<>> THEN a
    ELSE LET p == Head(parts)
             joined == IF a = <<>> \/ endswith_slash(a) THEN a \o p ELSE a \o <<"/">> \o p
         IN os_path_join(joined, Tail(parts))

\* save_path without lines 34-35: no index.html for an empty path or a
\* path ending in "/".
save_path_no_index(output_dir, domain, url) ==
    LET path_parts == split_slash(strip_slash(url.path))
        n == Len(path_parts)
        dir_structure == os_path_join(output_dir, << <<domain>> >> \o SubSeq(path_parts, 1, n - 1))
    IN [dir |-> dir_structure, file |-> os_path_join(dir_structure, <<path_parts[n]>>)]

\* [dir |-> the directory makedirs creates, file |-> the file opened for writing]
save_path(output_dir, domain, url) ==
    LET path0 == url.path
        path == IF path0 = <<>> \/ endswith_slash(path0) THEN path0 \o <<"index.html">> ELSE path0
        path_parts == split_slash(strip_slash(path))
        n == Len(path_parts)
        dir_structure == os_path_join(output_dir, << <<domain>> >> \o SubSeq(path_parts, 1, n - 1))
        filename == IF n > 0 THEN path_parts[n] ELSE <<"index.html">>
    IN [dir |-> dir_structure, file |-> os_path_join(dir_structure, <<filename>>)]

(***************************************************************************)
(* The file system under the output directory                              *)
(***************************************************************************)
\* The names a path resolves through: its non-empty runs between separators.
RECURSIVE nonempty(_)
nonempty(parts) ==
    IF parts = <<>> THEN <<>>
    ELSE IF Head(parts) = <<>> THEN nonempty(Tail(parts))
    ELSE <<Head(parts)>> \o nonempty(Tail(parts))

components(path) == nonempty(split_slash(path))

prefixes(comps) == {SubSeq(comps, 1, k) : k \in 1..Len(comps)}

\* os.makedirs(d, exist_ok=True) raises when a name on the way to d, or d
\* itself, is an existing file.
makedirs_ok(fs_files, d) == prefixes(components(d)) \cap DOMAIN fs_files = {}

\* open(f, "wb") raises when f is an existing directory.
open_ok(fs_dirs, f) == components(f) \notin fs_dirs

\* write_file that leaves an existing file as it is (first writer wins).
write_file_keep(fs_files, f, content) ==
    [k \in DOMAIN fs_files \cup {components(f)} |->
        IF k \in DOMAIN fs_files THEN fs_files[k] ELSE content]

\* Lines 44-45: open(file_path, "wb") truncates, write stores the content.
write_file(fs_files, f, content) ==
    [k \in DOMAIN fs_files \cup {components(f)} |->
        IF k = components(f) THEN content ELSE fs_files[k]]

\* save_resource(response, output_dir, domain, url) on the disk (fs_files,
\* fs_dirs): the disk afterwards, the path returned, and whether it raised.
save_resource(fs_files, fs_dirs, content, out, dom, url) ==
    LET sp == save_path(out, dom, url)
        made == fs_dirs \cup prefixes(components(sp.dir))
    IN IF ~makedirs_ok(fs_files, sp.dir)
       THEN [raised |-> TRUE, files |-> fs_files, dirs |-> fs_dirs, file_path |-> sp.file]
       ELSE IF ~open_ok(fs_dirs, sp.file)
       THEN [raised |-> TRUE, files |-> fs_files, dirs |-> made, file_path |-> sp.file]
       ELSE [raised |-> FALSE, files |-> write_file(fs_files, sp.file, content),
             dirs |-> made, file_path |-> sp.file]

(***************************************************************************)
(* The fetch client: requests.get(..., allow_redirects=True)               *)
(***************************************************************************)
\* Final statuses a server can answer with.
Statuses == {200, 204, 304, 404}

\* Response.raise_for_status() raises for the 4xx and 5xx statuses only.
raise_for_status(status) == 400 <= status /\ status < 600

\* Where a request for url can end after the redirects were followed: at url
\* itself, at the same page without its query and fragment, or on another host.
FinalURLs(url) == {url, [url EXCEPT !.query = "", !.fragment = ""], U_other}

\* Content-Type header values.
ContentTypes ==
    { <<"text/html", ";", " ", "charset=utf-8">>, <<" ", "text/css">>, <<"image/png">> }

RECURSIVE before_semicolon(_)
before_semicolon(h) ==
    IF h = <<>> \/ Head(h) = ";" THEN <<>> ELSE <<Head(h)>> \o before_semicolon(Tail(h))

RECURSIVE lstrip_ws(_)
lstrip_ws(h) == IF h # <<>> /\ Head(h) = " " THEN lstrip_ws(Tail(h)) ELSE h

RECURSIVE rstrip_ws(_)
rstrip_ws(h) ==
    IF h # <<>> /\ h[Len(h)] = " " THEN rstrip_ws(SubSeq(h, 1, Len(h) - 1)) ELSE h

\* response.headers.get("Content-Type", "").split(";")[0].strip()
content_type(header) == rstrip_ws(lstrip_ws(before_semicolon(header)))

\* The body a server answers a request for url with.
body_of(url) == url

Responses(url) ==
    [status : Statuses, url : FinalURLs(url), header : ContentTypes, content : {body_of(url)}]

(***************************************************************************)
(* crawl(): the state                                                      *)
(***************************************************************************)
VARIABLES
    pc,             \* "start": before line 101; "loop": at line 125; "done": exited
    exit_code,      \* the process exit code once pc = "done"; -1 while running
    start_url,      \* the url argument
    arg_max_depth,  \* the --max-depth option as given
    max_depth,      \* max_depth as the loop reads it (after lines 104-105)
    base_domain,    \* {} before line 120, then {the netloc of base_url}
    visited,        \* the set visited
    queue,          \* the FIFO queue of [url, depth] entries
    files,          \* the files on disk: path components -> content
    dirs,           \* the directories on disk, as path components
    calls,          \* the fetch client's call log: url -> number of requests.get(url)
    enqueued,       \* the number of queue.put calls so far
    last,           \* what the last step did: [outcome, response, links, kind]
    hist,           \* what the run did so far: [events, puts, seen_at, graph]
    trace,          \* what is kept: "step" (links and content type of a step, in
                    \* last), "run" (events, puts, seen_at), "graph", both in hist
    site_links      \* the absolute URLs the site's resources link to

vars == <<pc, exit_code, start_url, arg_max_depth, max_depth, base_domain, visited,
          queue, files, dirs, calls, enqueued, last, hist, trace, site_links>>

\* The --output directory, an absolute path (resolve_path=True).
output_dir == <<"/", "out">>

\* What a step leaves in last: its outcome and the response its request got,
\* as {} when it made no request or the request raised, else {[status, url]};
\* links and kind are filled in by a traced step that reaches lines 161-175.
Step(outcome, response) ==
    [outcome |-> outcome, response |-> response, links |-> <<>>, kind |-> <<>>]

\* A traced step also keeps the list the extractor returned (links of line
\* 164-175) and the content type of lines 161-163.
Traced(step, links, kind) ==
    IF "step" \in trace THEN [step EXCEPT !.links = links, !.kind = kind] ELSE step

answer(r) == {[status |-> r.status, url |-> r.url]}

logged(log, url) ==
    [u \in DOMAIN log \cup {url} |-> IF u \in DOMAIN log THEN log[u] + (IF u = url THEN 1 ELSE 0) ELSE 1]

Range(seq) == {seq[i] : i \in DOMAIN seq}

\* The run's history after a step that marks url visited at depth (line 135),
\* prints or meets the events, and puts the entries new (line 184).
\* events: "fetch_error" (line 146), "parse_error" (lines 170, 175),
\* "redirect" (response.url of line 149 differs from the url requested).
\* graph keeps, per url, the set of cleaned links (line 180) the loop of lines
\* 177-184 went through.
Noted(url, depth, events, links, new) ==
    [events |-> IF "run" \in trace THEN hist.events \cup events ELSE hist.events,
     puts |-> IF "run" \in trace THEN hist.puts \cup Range(new) ELSE hist.puts,
     seen_at |-> IF "run" \in trace
                 THEN [u \in DOMAIN hist.seen_at \cup {url} |->
                         IF u = url THEN depth ELSE hist.seen_at[u]]
                 ELSE hist.seen_at,
     graph |-> IF "graph" \in trace
               THEN [u \in DOMAIN hist.graph \cup {url} |->
                         IF u = url THEN Range(links) ELSE hist.graph[u]]
               ELSE hist.graph]

redirected(url, r) == IF r.url # url THEN {"redirect"} ELSE {}

\* effective_max_depth without lines 104-105: a negative value is kept.
effective_max_depth_keep(arg) == arg

\* Lines 104-105: a negative max_depth becomes None.
effective_max_depth(arg) == IF arg # {} /\ (\E d \in arg : d < 0) THEN {} ELSE arg

\* too_deep off by one: depth > max_depth + 1
too_deep_off_by_one(md, depth) == md # {} /\ (\E d \in md : depth > d + 1)

\* too_deep that already drops the entries at max_depth.
too_deep_at_limit(md, depth) == md # {} /\ (\E d \in md : depth >= d)

\* Line 128: max_depth is not None and depth > max_depth
too_deep(md, depth) == md # {} /\ (\E d \in md : depth > d)

\* clean_url that empties the fragment only.
clean_url_keep_query(link) == [link EXCEPT !.fragment = ""]

\* Lines 178-180: the link with its query and fragment emptied.
clean_url(link) == [link EXCEPT !.query = "", !.fragment = ""]

\* wanted without the should_download test of line 182.
wanted_any_host(clean, domain, seen) == is_valid(clean) /\ clean \notin seen

\* Line 182-183: whether a cleaned link is put on the queue.
wanted(clean, domain, seen) ==
    is_valid(clean) /\ should_download(clean, domain) /\ clean \notin seen

\* Lines 177-184: the entries the links of one resource add to the queue, in order.
RECURSIVE new_entries(_, _, _, _)
new_entries(links, domain, seen, depth) ==
    IF links = <<>> THEN <<>>
    ELSE LET clean == clean_url(Head(links))
             rest == new_entries(Tail(links), domain, seen, depth)
         IN IF wanted(clean, domain, seen)
            THEN <<[url |-> clean, depth |-> depth + 1]>> \o rest
            ELSE rest

\* parsed_type that hands every resource to an extractor.
parsed_type_any(ct) == TRUE

\* Lines 164-175: whether the content type selects a link extractor.
parsed_type(ct) == ct = <<"text/html">> \/ ct = <<"text/css">>

NoHistory == [events |-> {}, puts |-> {}, seen_at |-> <<>>, graph |-> <<>>]

\* The state crawl() is called in (line 80), keeping what kept names, on a
\* site whose resources link to the URLs of pool, with --max-depth in depths.
Called(kept, pool, depths) ==
    /\ pc = "start"
    /\ exit_code = -1
    /\ start_url \in StartURLs
    /\ arg_max_depth \in depths
    /\ max_depth = arg_max_depth
    /\ base_domain = {}
    /\ visited = {}
    /\ queue = <<>>
    /\ files = <<>>
    /\ dirs = {}
    /\ calls = <<>>
    /\ enqueued = 0
    /\ last = Step("none", {})
    /\ hist = NoHistory
    /\ trace = kept
    /\ site_links = pool

Init == Called({"run"}, LinkPool, DepthArgs)

\* Traced runs: --max-depth omitted or at its largest value.
TraceInit == Called({"step"}, LinkPool, {{}, {MaxDepthArg}})

CleanInit == Called({"run", "graph"}, FlatLinkPool, DepthArgs)

(***************************************************************************)
(* crawl(): before the loop, lines 101-123                                 *)
(***************************************************************************)
\* Line 103 raises (the output directory cannot be created): lines 186-188.
MkdirFails ==
    /\ pc = "start"
    /\ pc' = "done"
    /\ exit_code' = 1
    /\ last' = Step("mkdir_error", {})
    /\ UNCHANGED <<start_url, arg_max_depth, max_depth, base_domain, visited, queue,
                   files, dirs, calls, enqueued, hist, trace, site_links>>

\* Line 112 raises (the initial URL is unreachable): lines 186-188.
InitialFetchRaises ==
    /\ pc = "start"
    /\ dirs' = dirs \cup prefixes(components(output_dir))
    /\ max_depth' = effective_max_depth(arg_max_depth)
    /\ calls' = logged(calls, start_url)
    /\ pc' = "done"
    /\ exit_code' = 1
    /\ last' = Step("initial_error", {})
    /\ UNCHANGED <<start_url, arg_max_depth, base_domain, visited, queue, files, enqueued,
                   hist, trace, site_links>>

\* Line 115: whether the initial response is refused.
initial_refused(status) == status # 200

\* Lines 115-117: the initial response has a status other than 200.
InitialRefused ==
    /\ pc = "start"
    /\ \E r \in Responses(start_url) :
        /\ initial_refused(r.status)
        /\ last' = Step("initial_refused", answer(r))
    /\ dirs' = dirs \cup prefixes(components(output_dir))
    /\ max_depth' = effective_max_depth(arg_max_depth)
    /\ calls' = logged(calls, start_url)
    /\ pc' = "done"
    /\ exit_code' = 1
    /\ UNCHANGED <<start_url, arg_max_depth, base_domain, visited, queue, files, enqueued,
                   hist, trace, site_links>>

\* base_url taken from the url argument instead of the response.
base_url_as_given(given, final) == given

\* Line 119: base_url = response.url
base_url(given, final) == final

\* Lines 119-123: the seed is the final URL of the initial response.
InitialOK ==
    /\ pc = "start"
    /\ \E r \in Responses(start_url) :
        LET seed == [url |-> base_url(start_url, r.url), depth |-> 0]
        IN /\ ~initial_refused(r.status)
           /\ base_domain' = {seed.url.netloc}
           /\ queue' = <<seed>>
           /\ last' = Step("seeded", answer(r))
           /\ hist' = IF "run" \in trace THEN [hist EXCEPT !.puts = {seed}] ELSE hist
    /\ dirs' = dirs \cup prefixes(components(output_dir))
    /\ max_depth' = effective_max_depth(arg_max_depth)
    /\ calls' = logged(calls, start_url)
    /\ visited' = {}
    /\ enqueued' = enqueued + 1
    /\ pc' = "loop"
    /\ UNCHANGED <<start_url, arg_max_depth, exit_code, files, trace, site_links>>

(***************************************************************************)
(* crawl(): one iteration of the loop, lines 125-184                       *)
(***************************************************************************)
domain == CHOOSE d \in base_domain : TRUE

entry == Head(queue)

Config == <<start_url, arg_max_depth, max_depth, base_domain, trace, site_links>>

\* already_visited without the test of line 133.
already_visited_never(url, seen) == FALSE

\* Line 133: url in visited
already_visited(url, seen) == url \in seen

\* Lines 128-131: the entry is deeper than max_depth.
SkipDepth ==
    /\ pc = "loop" /\ queue # <<>>
    /\ too_deep(max_depth, entry.depth)
    /\ queue' = Tail(queue)
    /\ last' = Step("too_deep", {})
    /\ UNCHANGED <<Config, pc, exit_code, visited, files, dirs, calls, enqueued, hist>>

\* Lines 133-134: the url was visited before.
SkipVisited ==
    /\ pc = "loop" /\ queue # <<>>
    /\ ~too_deep(max_depth, entry.depth)
    /\ already_visited(entry.url, visited)
    /\ queue' = Tail(queue)
    /\ last' = Step("seen", {})
    /\ UNCHANGED <<Config, pc, exit_code, visited, files, dirs, calls, enqueued, hist>>

\* visited_add that adds nothing.
visited_add_none(seen, url) == seen

\* Line 135: visited.add(url)
visited_add(seen, url) == seen \cup {url}

\* Line 135 and the request of line 141, common to every step that fetches.
Fetch ==
    /\ pc = "loop" /\ queue # <<>>
    /\ ~too_deep(max_depth, entry.depth)
    /\ ~already_visited(entry.url, visited)
    /\ visited' = visited_add(visited, entry.url)
    /\ calls' = logged(calls, entry.url)

\* Lines 140-147: requests.get raises, or raise_for_status does.
FetchFails ==
    /\ Fetch
    /\ hist' = Noted(entry.url, entry.depth, {"fetch_error"}, <<>>, <<>>)
    /\ \/ last' = Step("fetch_error", {})
       \/ \E r \in Responses(entry.url) :
            /\ raise_for_status(r.status)
            /\ last' = Step("fetch_error", answer(r))
    /\ queue' = Tail(queue)
    /\ UNCHANGED <<Config, pc, exit_code, files, dirs, enqueued>>

\* Lines 149-153: the final URL is on another host.
SkipScope ==
    /\ Fetch
    /\ \E r \in Responses(entry.url) :
        /\ ~raise_for_status(r.status)
        /\ ~should_download(r.url, domain)
        /\ last' = Step("out_of_scope", answer(r))
        /\ hist' = Noted(entry.url, entry.depth, redirected(entry.url, r), <<>>, <<>>)
    /\ queue' = Tail(queue)
    /\ UNCHANGED <<Config, pc, exit_code, files, dirs, enqueued>>

\* Lines 155-157: save_resource raises, by the state of the disk or by a
\* failure of the disk itself (io_error); nothing in the loop catches it, so
\* lines 186-188 end the run.
SaveFails ==
    /\ Fetch
    /\ \E r \in Responses(entry.url), io_error \in BOOLEAN :
        LET saved == save_resource(files, dirs, r.content, output_dir, domain, r.url)
        IN /\ ~raise_for_status(r.status)
           /\ should_download(r.url, domain)
           /\ saved.raised \/ io_error
           /\ dirs' = saved.dirs
           /\ last' = Traced(Step("save_error", answer(r)), <<>>, content_type(r.header))
           /\ hist' = Noted(entry.url, entry.depth, redirected(entry.url, r), <<>>, <<>>)
    /\ queue' = Tail(queue)
    /\ pc' = "done"
    /\ exit_code' = 1
    /\ UNCHANGED <<Config, files, enqueued>>

\* queue_put on a stack: the new entries go to the front.
queue_put_front(q, new) == new \o q

\* Line 184: queue.put appends to the back of the FIFO queue.
queue_put(q, new) == q \o new

\* Lines 161-175: what the extractors can hand back for a response: nothing
\* for a content type that is not parsed, else any list of links or, when the
\* extractor raises, the empty list links was initialised to.
Extractions(r) ==
    IF parsed_type(content_type(r.header))
    THEN [links : SeqsUpTo(site_links, MaxLinks), raised : {FALSE}]
             \cup {[links |-> <<>>, raised |-> TRUE]}
    ELSE {[links |-> <<>>, raised |-> FALSE]}

\* Lines 155-184: the resource is saved, its links are extracted and the
\* wanted ones are put on the queue. With clean, the environment is kept to
\* requests that are not redirected and extractors that do not raise.
Saving(clean) ==
    /\ Fetch
    /\ \E r \in {q \in Responses(entry.url) : clean => q.url = entry.url} :
        /\ ~raise_for_status(r.status)
        /\ should_download(r.url, domain)
        /\ LET saved == save_resource(files, dirs, r.content, output_dir, domain, r.url)
           IN /\ ~saved.raised
              /\ dirs' = saved.dirs
              /\ files' = saved.files
        /\ \E x \in {y \in Extractions(r) : clean => ~y.raised} :
            LET new == new_entries(x.links, domain, visited', entry.depth)
            IN /\ queue' = queue_put(Tail(queue), new)
               /\ enqueued' = enqueued + Len(new)
               /\ last' = Traced(Step(IF x.raised THEN "saved_unparsed" ELSE "saved", answer(r)),
                                  x.links, content_type(r.header))
               /\ hist' = Noted(entry.url, entry.depth,
                                redirected(entry.url, r)
                                    \cup (IF x.raised THEN {"parse_error"} ELSE {}),
                                [i \in DOMAIN x.links |-> clean_url(x.links[i])], new)
    /\ UNCHANGED <<Config, pc, exit_code>>

Saved == Saving(FALSE)

SavedClean == Saving(TRUE)

\* Line 125: the queue is empty; crawl returns.
Finish ==
    /\ pc = "loop" /\ queue = <<>>
    /\ pc' = "done"
    /\ exit_code' = 0
    /\ last' = Step("finished", {})
    /\ UNCHANGED <<Config, visited, queue, files, dirs, calls, enqueued, hist>>

Next ==
    \/ MkdirFails
    \/ InitialFetchRaises
    \/ InitialRefused
    \/ InitialOK
    \/ SkipDepth
    \/ SkipVisited
    \/ FetchFails
    \/ SkipScope
    \/ Saved
    \/ SaveFails
    \/ Finish

Spec == Init /\ [][Next]_vars

\* The same program, with last keeping the links and content type of each step.
TraceSpec == TraceInit /\ [][Next]_vars

(***************************************************************************)
(* save_resource on its own: one call on an empty output directory, for    *)
(* every URL path of up to MaxPathLen tokens and every body.               *)
(***************************************************************************)
PathTokens == {"/", "a", "b"}

Paths == SeqsUpTo(PathTokens, MaxPathLen)

Bodies == {U_root, U_a}

SaveInit ==
    /\ pc = "save"
    /\ exit_code = -1
    /\ start_url \in {Url("https", SITE_HOST, p, "", "") : p \in Paths}
    /\ arg_max_depth = {}
    /\ max_depth = {}
    /\ base_domain = {SITE_HOST}
    /\ visited = {}
    /\ queue = <<>>
    /\ files = <<>>
    /\ dirs = prefixes(components(output_dir))
    /\ calls = <<>>
    /\ enqueued = 0
    /\ last = Step("none", {})
    /\ hist = NoHistory
    /\ trace = {}
    /\ site_links = {}

SaveOne ==
    /\ pc = "save"
    /\ \E content \in Bodies :
        LET saved == save_resource(files, dirs, content, output_dir, domain, start_url)
        IN /\ files' = saved.files
           /\ dirs' = saved.dirs
           /\ last' = Step(IF saved.raised THEN "save_error" ELSE "saved", {})
    /\ pc' = "saved"
    /\ UNCHANGED <<Config, exit_code, visited, queue, calls, enqueued, hist>>

SaveSpec == SaveInit /\ [][SaveOne]_vars

\* The sequential program always takes its next step.
FairSpec == Spec /\ WF_vars(Next)

\* The same program where no request in the loop fails or is redirected, no
\* save fails and no extractor raises, on a site whose saved paths do not
\* collide.
CleanNext ==
    \/ InitialOK
    \/ SkipDepth
    \/ SkipVisited
    \/ SavedClean
    \/ Finish

CleanSpec == CleanInit /\ [][CleanNext]_vars

(***************************************************************************)
(* Properties                                                              *)
(***************************************************************************)
\* A step of the loop that calls the fetch client (line 141).
Requests == pc = "loop" /\ calls' # calls

Is2xx(status) == 200 <= status /\ status <= 299

\* C1. Visited-once: over a whole run, the initial request included, no URL
\* is passed to the fetch client more than once.
C1_FetchedAtMostOnce == \A u \in DOMAIN calls : calls[u] <= 1

\* C2. Depth bound: with max_depth = d set, an entry deeper than d is dropped
\* at dequeue with no request, no save and no change of visited, and every
\* request made in the loop is for an entry of depth at most d.
C2_DepthBound ==
    [][ /\ (pc = "loop" /\ queue # <<>> /\ (\E d \in max_depth : entry.depth > d))
            => /\ calls' = calls
               /\ files' = files
               /\ dirs' = dirs
               /\ visited' = visited
               /\ queue' = Tail(queue)
        /\ Requests => \A d \in max_depth : entry.depth <= d ]_vars

C2_Witness ==
    /\ last.outcome = "too_deep"
    /\ max_depth = {1}
    /\ Cardinality(visited) >= 2

\* C3. Cross-domain exclusion: every entry of the queue has scheme http or
\* https and the netloc of the site, and so has every URL the loop requested.
C3_FrontierInScope ==
    /\ \A i \in 1..Len(queue) :
        /\ queue[i].url.scheme \in {"http", "https"}
        /\ base_domain = {queue[i].url.netloc}
    /\ \A u \in visited : base_domain = {u.netloc}

C3_Witness ==
    /\ last.outcome = "saved"
    /\ Len(queue) >= 2
    /\ queue[Len(queue)].depth >= 1
    /\ queue[Len(queue)].url.scheme = "http"

\* C4. Redirect-exit scope: when the request for a dequeued URL succeeds and
\* its final URL is on another host, the URL is in visited, nothing is written
\* to disk, nothing is put on the queue and the loop goes on.
C4_RedirectExit ==
    [][ (Requests /\ \E r \in last'.response : r.status < 400 /\ base_domain # {r.url.netloc})
            => /\ entry.url \in visited'
               /\ files' = files
               /\ dirs' = dirs
               /\ queue' = Tail(queue)
               /\ enqueued' = enqueued
               /\ pc' = "loop" ]_vars

C4_Witness ==
    /\ last.outcome = "out_of_scope"
    /\ \E r \in last.response : r.url = U_other
    /\ base_domain = {SITE_HOST}
    /\ U_a \in visited
    /\ queue # <<>>

\* C5. Save-failure containment: when save_resource raises for a resource of
\* the loop, the crawl is not stopped.
C5_SaveFailureContained ==
    [][ (Requests /\ \E r \in last'.response :
            /\ r.status < 400
            /\ base_domain = {r.url.netloc}
            /\ save_resource(files, dirs, body_of(entry.url), output_dir, domain, r.url).raised)
            => pc' = "loop" /\ exit_code' # 1 ]_vars

\* C6. Fetch-failure containment: when the request of the loop raises or ends
\* in a status that is not 2xx, nothing is saved, nothing is put on the queue
\* and the loop goes on.
C6_FetchFailureContained ==
    [][ (Requests /\ \A r \in last'.response : ~Is2xx(r.status))
            => /\ files' = files
               /\ dirs' = dirs
               /\ queue' = Tail(queue)
               /\ enqueued' = enqueued
               /\ pc' = "loop" ]_vars

\* C7. Termination: the loop drains the queue and the run ends; an entry is
\* put on the queue only by a step that adds a URL to visited (or by the
\* seeding), never for a URL in visited, and the number of entries ever put is
\* at most 1 + MaxLinks for each visited URL.
C7_Termination ==
    /\ <>(pc = "done")
    /\ [](enqueued <= 1 + MaxLinks * Cardinality(visited))
    /\ [][ (pc = "loop" /\ enqueued' > enqueued)
            => /\ visited' # visited
               /\ Len(queue') = Len(queue) - 1 + (enqueued' - enqueued)
               /\ \A i \in Len(queue)..Len(queue') : queue'[i].url \notin visited' ]_vars

C7_Witness ==
    /\ pc = "done"
    /\ exit_code = 0
    /\ Cardinality(visited) >= 3
    /\ enqueued >= 4

\* C8. Initial-URL fatality: a run that ends before anything was put on the
\* queue, with an initial response, had an initial status that is not 2xx.
C8_InitialFatalOnlyNon2xx ==
    (pc = "done" /\ enqueued = 0) => \A r \in last.response : ~Is2xx(r.status)

\* C9. Negative max_depth is unlimited: with a negative --max-depth the loop
\* runs with max_depth None, as with the flag omitted, and every dequeued
\* entry whose URL is not in visited is requested, whatever its depth.
C9_NegativeIsUnlimited ==
    /\ []((pc = "loop" /\ \E d \in arg_max_depth : d < 0) => max_depth = {})
    /\ [][ (pc = "loop" /\ queue # <<>> /\ entry.url \notin visited
                /\ \E d \in arg_max_depth : d < 0)
            => calls' # calls ]_vars

C9_Witness ==
    /\ arg_max_depth = {-1}
    /\ last.outcome = "saved"
    /\ Cardinality(visited) >= 3

\* C10. Index fallback and path mapping: save_resource writes the file
\* output_dir/domain/<segments>, the segments being the non-empty runs of the
\* URL path between "/", followed by index.html when the path is empty or ends
\* in "/"; the directories are the proper prefixes; the body has no part in it.
ExpectedSegments(path) ==
    nonempty(split_slash(path))
        \o (IF path = <<>> \/ path[Len(path)] = "/" THEN << <<"index.html">> >> ELSE <<>>)

ExpectedFile(path) == << <<"out">>, <<SITE_HOST>> >> \o ExpectedSegments(path)

C10_SavePath ==
    pc = "saved" =>
        /\ last.outcome = "saved"
        /\ DOMAIN files = {ExpectedFile(start_url.path)}
        /\ dirs = prefixes(ExpectedFile(start_url.path)) \ {ExpectedFile(start_url.path)}

C10_Witness ==
    /\ pc = "saved"
    /\ start_url.path = <<"/", "a", "/">>
    /\ DOMAIN files = {<< <<"out">>, <<SITE_HOST>>, <<"a">>, <<"index.html">> >>}
    /\ files[<< <<"out">>, <<SITE_HOST>>, <<"a">>, <<"index.html">> >>] = U_a

\* A step of the loop that saves the resource it fetched and goes on: its
\* response did not raise and its final URL is on the site's host.
SavesAndGoesOn ==
    /\ Requests
    /\ pc' = "loop"
    /\ \E r \in last'.response : r.status < 400 /\ base_domain = {r.url.netloc}

\* The entries the enqueue rule asks for: per link, in order, its normalized
\* form one level deeper, when http(s), on the site's host and not in seen.
ExpectedPuts(links, host, seen, d) ==
    LET normalized == [i \in DOMAIN links |->
                         Url(links[i].scheme, links[i].netloc, links[i].path, "", "")]
        asked(u) == u.scheme \in {"http", "https"} /\ host = {u.netloc} /\ u \notin seen
        chosen == SelectSeq(normalized, asked)
    IN [i \in DOMAIN chosen |-> [url |-> chosen[i], depth |-> d + 1]]

\* C11. Enqueue rule: when a resource dequeued at depth d is saved, the queue
\* afterwards is the rest of the queue followed, for each extracted link in
\* order, by exactly one entry (normalize(L), d + 1) when normalize(L) is
\* http(s), on siteDomain and not in VisitedSet at that moment (the resource
\* itself already is), and by nothing for any other link; this whatever the
\* content type of the parent.
C11_EnqueueRule ==
    [][SavesAndGoesOn =>
        queue' = Tail(queue) \o ExpectedPuts(last'.links, base_domain, visited', entry.depth)]_vars

\* A CSS resource at depth 1 listed a link with a query and a fragment and a
\* link to another host: the first is queued normalized at depth 2, the
\* second is not queued.
C11_Witness ==
    /\ "step" \in trace /\ pc = "loop"
    /\ last.kind = <<"text/css">>
    /\ last.links = <<U_a_qf, U_other>>
    /\ queue # <<>> /\ queue[Len(queue)] = [url |-> U_a, depth |-> 2]
    /\ \A i \in DOMAIN queue : queue[i].url # U_other

\* C12. Visited before fetch and forever: a URL the loop requests was not in
\* VisitedSet (so a URL is never requested again, failed or not) and is in it
\* once the step is over, whatever the request did (saved, skipped, failed);
\* no step removes an element from VisitedSet.
C12_VisitedForever ==
    [][ /\ visited \subseteq visited'
        /\ Requests =>
             \A u \in DOMAIN calls' :
                (u \notin DOMAIN calls \/ calls'[u] # calls[u]) =>
                    u \notin visited /\ u \in visited' ]_vars

\* The request for /a failed, /a stayed in visited, and a second queue entry
\* for /a was dropped without a request.
C12_Witness ==
    /\ pc = "loop"
    /\ hist.events = {"fetch_error"}
    /\ last.outcome = "seen"
    /\ visited = {U_root, U_a}
    /\ calls[U_a] = 1
    /\ ExpectedFile(P_a) \notin DOMAIN files

\* C13. siteDomain fixed once: the step that enters the loop sets siteDomain
\* to the host of the final URL of the initial fetch and makes (that final
\* URL, 0) the only queue entry; no step of the loop changes siteDomain, the
\* steps whose request ends on another host included.
C13_SiteDomainFixed ==
    [][ /\ (pc = "start" /\ pc' = "loop") =>
              \E r \in last'.response :
                  /\ base_domain' = {r.url.netloc}
                  /\ queue' = <<[url |-> r.url, depth |-> 0]>>
        /\ pc = "loop" => base_domain' = base_domain ]_vars

\* The start URL was redirected to its final URL before the loop, and a
\* request of the loop ended on another host: siteDomain is still the host of
\* the seed.
C13_Witness ==
    /\ pc = "loop"
    /\ start_url = U_a_qf
    /\ U_a \in visited
    /\ U_a_qf \notin visited
    /\ last.outcome = "out_of_scope"
    /\ \E r \in last.response : r.url.netloc = OTHER_HOST
    /\ base_domain = {SITE_HOST}

\* C14. VisitedSet holds only normalized URLs: in every reachable state every
\* element of VisitedSet and every URL in the queue, the seed taken from the
\* initial fetch's final URL included, has an empty query and an empty
\* fragment.
C14_OnlyNormalized ==
    \A u \in visited \cup {queue[i].url : i \in DOMAIN queue} :
        u.query = "" /\ u.fragment = ""

\* The file a final URL is mirrored to: the output directory, the host, then
\* the segments of the path.
SavedFile(url) == << <<"out">>, <<url.netloc>> >> \o ExpectedSegments(url.path)

\* C15. Non-parsed resource kinds: a step that fetches an in-scope resource
\* whose primary content type is neither text/html nor text/css only removes
\* the dequeued entry from the queue and puts nothing, and, unless the save
\* itself failed, leaves the body in the file of the final URL's path.
C15_NonParsedKinds ==
    [][ ( /\ Requests
          /\ \E r \in last'.response : r.status < 400 /\ base_domain = {r.url.netloc}
          /\ last'.kind \notin {<<>>, <<"text/html">>, <<"text/css">>} )
        => /\ queue' = Tail(queue)
           /\ enqueued' = enqueued
           /\ pc' = "loop" =>
                \E r \in last'.response :
                    /\ SavedFile(r.url) \in DOMAIN files'
                    /\ files'[SavedFile(r.url)] = body_of(entry.url) ]_vars

\* /a was served as image/png and saved while another entry was waiting: the
\* queue is what it was, less the entry for /a.
C15_Witness ==
    /\ "step" \in trace /\ pc = "loop"
    /\ last.kind = <<"image/png">>
    /\ last.outcome = "saved"
    /\ \E r \in last.response : r.url = U_a
    /\ ExpectedFile(P_a) \in DOMAIN files
    /\ queue = <<[url |-> U_ab, depth |-> 1]>>

\* A step of the loop in which an extractor raised (lines 169-170, 174-175).
ParseFails == pc = "loop" /\ "parse_error" \in hist'.events \ hist.events

\* C16. Parse-failure containment: a step in which the HTML or CSS extractor
\* fails puts no entry on the queue, leaves the resource's body in its file
\* and stays in the loop; and a run in which an extractor failed ends with
\* exit code 0.
C16_ParseFailureContained ==
    [][ /\ ParseFails =>
             /\ queue' = Tail(queue)
             /\ enqueued' = enqueued
             /\ pc' = "loop"
             /\ \E r \in last'.response :
                  /\ SavedFile(r.url) \in DOMAIN files'
                  /\ files'[SavedFile(r.url)] = body_of(entry.url)
        /\ (pc = "loop" /\ pc' = "done" /\ "parse_error" \in hist.events) =>
             exit_code' = 0 ]_vars

\* C17. Last-writer-wins: every step that saves leaves the body of the
\* resource it fetched in the file of the final URL's path, whether or not a
\* file was there, and changes no other file; nothing else changes a file;
\* and an existing file never stands in the way of a later save to its own
\* path (it is not a directory and none of its parent directories is a
\* file). Hence at the end of the run each file holds the body saved last at
\* its path.
C17_LastWriterWins ==
    /\ [](\A k \in DOMAIN files :
            /\ k \notin dirs
            /\ \A j \in 1..(Len(k) - 1) : SubSeq(k, 1, j) \notin DOMAIN files)
    /\ [][ /\ SavesAndGoesOn =>
                \E r \in last'.response :
                    files' = [k \in DOMAIN files \cup {SavedFile(r.url)} |->
                                IF k = SavedFile(r.url) THEN body_of(entry.url) ELSE files[k]]
           /\ (pc = "loop" /\ files' # files) => SavesAndGoesOn ]_vars

\* The run is over: the seed /a?q=1#top was redirected to /a and saved to
\* the file a, then the link /a was fetched and saved to the same file, which
\* holds the body saved second.
C17_Witness ==
    /\ pc = "done" /\ exit_code = 0
    /\ hist.events = {"redirect"}
    /\ hist.seen_at = (U_a_qf :> 0) @@ (U_a :> 1)
    /\ DOMAIN files = {ExpectedFile(P_a)}
    /\ files[ExpectedFile(P_a)] = body_of(U_a)

\* C18. Breadth-first order: the depths of successively dequeued entries
\* never decrease; every entry in the queue has the depth of the entry at
\* its head or that depth plus one, and after a step every entry has the
\* depth of the entry the step dequeued or that depth plus one; hence a URL
\* is marked visited at the smallest depth at which it was ever put.
C18_BreadthFirst ==
    /\ [](\A i \in DOMAIN queue :
            queue[i].depth \in {Head(queue).depth, Head(queue).depth + 1})
    /\ [](\A u \in DOMAIN hist.seen_at :
            /\ [url |-> u, depth |-> hist.seen_at[u]] \in hist.puts
            /\ \A e \in hist.puts : e.url = u => hist.seen_at[u] <= e.depth)
    /\ [][ (pc = "loop" /\ queue # <<>>) =>
             /\ queue' # <<>> => Head(queue).depth <= Head(queue').depth
             /\ \A i \in DOMAIN queue' :
                   queue'[i].depth \in {entry.depth, entry.depth + 1} ]_vars

\* /a was put at depth 1 by the seed and again at depth 2 by /a/b, which was
\* dequeued first; /a was marked visited at depth 1 and its deeper entry was
\* dropped.
C18_Witness ==
    /\ pc = "loop"
    /\ {[url |-> U_a, depth |-> 1], [url |-> U_a, depth |-> 2]} \subseteq hist.puts
    /\ U_a \in DOMAIN hist.seen_at /\ hist.seen_at[U_a] = 1
    /\ last.outcome = "seen"

\* Every URL a crawl of the site with FlatLinkPool can meet.
Known == StartURLs \cup {Url(u.scheme, u.netloc, u.path, "", "") : u \in StartURLs \cup FlatLinkPool}
            \cup {U_other}

\* The URLs within k link hops of from, over the links the saved resources
\* listed (graph), keeping the http(s) links on host.
RECURSIVE ReachWithin(_, _, _, _)
ReachWithin(graph, from, host, k) ==
    IF k = 0 THEN from
    ELSE LET linked == UNION {graph[u] : u \in from \cap DOMAIN graph}
             kept == {v \in linked : v.scheme \in {"http", "https"} /\ host = {v.netloc}}
         IN ReachWithin(graph, from \cup kept, host, k - 1)

\* The URLs the crawl has to cover: those within max_depth hops of the seed,
\* or within any number of hops when max_depth is None.
Reachable ==
    LET seed == {e.url : e \in {p \in hist.puts : p.depth = 0}}
        hops == IF max_depth = {} THEN Cardinality(Known)
                ELSE CHOOSE d \in max_depth : TRUE
    IN ReachWithin(hist.graph, seed, base_domain, hops)

\* The steps left to the loop at most: one per queue entry, and MaxLinks
\* more entries per URL not visited yet.
StepsLeft == MaxLinks * (Cardinality(Known) - Cardinality(visited)) + Len(queue)

\* C19. Coverage within the depth limit: when no request of the loop fails or
\* redirects, no save fails and no extractor raises, the run ends (every
\* step of the loop is possible and lowers a bounded count of steps left),
\* and when it has ended every http(s) URL on the site's host within
\* max_depth link hops of the seed (any number when max_depth is None) has
\* been requested and has its file; in particular one that was also put at
\* a depth beyond the limit.
C19_Coverage ==
    /\ [](pc = "done" =>
            \A u \in Reachable :
                /\ u \in visited
                /\ u \in DOMAIN hist.graph
                /\ SavedFile(u) \in DOMAIN files)
    /\ [](visited \subseteq Known /\ StepsLeft >= 0)
    /\ []((pc = "loop" /\ queue # <<>> /\ ~too_deep(max_depth, entry.depth)
                /\ entry.url \notin visited)
            => ~save_resource(files, dirs, body_of(entry.url), output_dir, domain,
                              entry.url).raised)
    /\ [][(pc = "loop" /\ pc' = "loop") => StepsLeft' < StepsLeft]_vars

\* With --max-depth 1 the seed / listed /a and /b, and /a listed /b again:
\* /b was put at depth 1 and at depth 2, and the run ended with all three
\* saved.
C19_Witness ==
    /\ pc = "done" /\ exit_code = 0
    /\ max_depth = {1}
    /\ {[url |-> U_b, depth |-> 1], [url |-> U_b, depth |-> 2]} \subseteq hist.puts
    /\ Reachable = {U_root, U_a, U_b}
    /\ {SavedFile(U_root), SavedFile(U_a), SavedFile(U_b)} \subseteq DOMAIN files
====
